---- MODULE Spec2Model ----
(***************************************************************************)
(* Model of train.py: the epoch loop of the VDNet training script, its     *)
(* step bookkeeping, the test-loss aggregation, the adaptive KL-weight     *)
(* update, and the snapshot / visualization cadence.                       *)
(*                                                                         *)
(* Numbers.  Losses and weights are floating-point numbers in the         *)
(* program and exact numbers here (rounding is not modelled): a per-batch  *)
(* loss is a natural number, the KL weight an integer, and a test          *)
(* accumulator a fraction [num, den], added as fractions are, so that      *)
(* x * n / N summed over the batches is represented exactly.  target_loss  *)
(* and max_weight are extended numbers: a number, +infinity (the default   *)
(* of --max_weight), or None.                                              *)
(*                                                                         *)
(* The data sets are non-empty.  The network, the optimizer and the image  *)
(* contents are not modelled: a summary is its tag and its step, and a     *)
(* training summary also carries the KL weight that entered its loss.      *)
(*                                                                         *)
(* A behaviour is one process started without --resume and run to the end, *)
(* optionally followed by a second process of the same command line        *)
(* started with --resume on one of the snapshots the first one wrote.      *)
(***************************************************************************)
EXTENDS Integers, Sequences, FiniteSets, TLC

(* ---- bounds of the model ---- *)
MaxEpochs == 3
MaxTrain == 2
MaxTest == 2
MaxAdj == 2

VARIABLES
  args,        \* parsed command line (weight_kl: the value given on the command line)
  data,        \* [train |-> len(data['train']), test |-> len(data['test'])]
  weight_kl,   \* args.weight_kl, the attribute the script mutates
  epoch,       \* loop variable of the epoch loop
  step,        \* global step
  pc,          \* position of the script
  consumed,    \* training samples consumed in the current epoch
  tested,      \* test samples consumed in the current epoch
  loss_r,      \* test accumulator of the reconstruction loss (a fraction)
  loss_kl,     \* test accumulator of the KL loss (a fraction)
  logger,      \* summaries written by this process, in order
  snapshots,   \* snapshot files in exp_path
  run,         \* 1: the process started without --resume, 2: the resumed one
  resume,      \* epoch number of the snapshot given to --resume, -1 when none
  hist,        \* history of the current process and epoch (observation only)
  refLog,      \* history: tag and step of the summaries of the uninterrupted process
  adj          \* history: inputs and output of the last KL-weight update

vars == <<args, data, weight_kl, epoch, step, pc, consumed, tested, loss_r,
          loss_kl, logger, snapshots, run, resume, hist, refLog, adj>>

(* ---- extended numbers ---- *)
Num(n) == [kind |-> "num", v |-> n]
Inf == [kind |-> "inf", v |-> 0]
None == [kind |-> "none", v |-> 0]

\* x < e, x an integer, e a number or +infinity
ExtLt(x, e) == IF e.kind = "inf" THEN TRUE ELSE x < e.v

\* min(x, e), x an integer, e a number or +infinity
ExtMin(x, e) == IF e.kind = "inf" THEN x ELSE IF x <= e.v THEN x ELSE e.v

(* ---- fractions (den > 0) ---- *)
Frac(n, d) == [num |-> n, den |-> d]

\* f < e, e a number or +infinity
FracLtExt(f, e) == IF e.kind = "inf" THEN TRUE ELSE f.num < e.v * f.den

\* f + g
FracAdd(f, g) == Frac(f.num * g.den + g.num * f.den, f.den * g.den)

\* f * w < g
FracMulLt(f, w, g) == f.num * w * g.den < g.num * f.den

(* ---- python's integer remainder (sign of the divisor) ---- *)
PyMod(a, b) == IF b > 0 THEN a % b ELSE 0 - ((0 - a) % (0 - b))

(* ---- the KL-weight update, lines 128-130 ---- *)
\* variant: the doubled weight is not capped
AdjustNoClamp(Lr, Lk, w, T, Wmax) ==
  IF T.kind # "none" /\ FracLtExt(Lr, T)
  THEN IF FracMulLt(Lk, w, Lr) /\ ExtLt(w, Wmax) THEN w * 2 ELSE w
  ELSE w

AdjustKLWeight(Lr, Lk, w, T, Wmax) ==
  IF T.kind # "none" /\ FracLtExt(Lr, T)
  THEN IF FracMulLt(Lk, w, Lr) /\ ExtLt(w, Wmax) THEN ExtMin(w * 2, Wmax) ELSE w
  ELSE w

(* ---- the snapshot condition, line 133 ---- *)
\* variant: the interval only switches snapshots on
SnapshotDueEveryEpoch(e, interval) == interval # 0

SnapshotDue(e, interval) == interval # 0 /\ PyMod(e + 1, interval) = 0

(* ---- snapshot files: utils.torch.save_snapshot / load_snapshot ---- *)
save_snapshot(e) == [epoch |-> e]
load_snapshot(s) == s.epoch

(* ---- size of the next batch a DataLoader yields ---- *)
BatchSize(len, done, batch) == IF len - done < batch THEN len - done ELSE batch

(* ---- line 100-102: the step the training scalars are logged at ---- *)
\* variant: the scalars are logged after line 103
TrainLogStepAfter(s, n) == s + n

TrainLogStep(s, n) == s

(* ---- line 103: step += targets.size(0) ---- *)
\* variant: the step counts batches
StepAdvanceByOne(s, n) == s + 1

StepAdvance(s, n) == s + n

(* ---- line 120-121: acc += x * targets.size(0) / len(data['test']) ---- *)
\* variant: the batch size is left out
AccumulateUnweighted(acc, x, n, len) == FracAdd(acc, Frac(x, len))

Accumulate(acc, x, n, len) == FracAdd(acc, Frac(x * n, len))

(* ---- configurations ---- *)
\* <<--weight_kl, --max_weight>>
WeightConfigs == {<<-1, Inf>>, <<1, Inf>>, <<1, Num(3)>>, <<0, Num(3)>>,
                  <<1, Num(1)>>, <<2, Num(1)>>}
Targets == {Num(1)}
EpochCounts == {0, MaxEpochs}
Intervals == {-2, 0, 1, 2}
Batches == {1, 2}
Losses == {0, 1}

Entry(tag, s, w, e) == [tag |-> tag, step |-> s, w |-> w, epoch |-> e]

NoAdj == [Lr |-> Frac(0, 1), Lk |-> Frac(0, 1), w |-> 0, T |-> None,
          Wmax |-> Inf, out |-> 0, n |-> 0, tested |-> 0]

NoTrain == [logged |-> 0, before |-> 0, after |-> 0, size |-> 0]

NoHist == [start |-> 0, end |-> 0, prevEnd |-> 0, w |-> 0, prevW |-> 0, n |-> 0,
           batches |-> <<>>,
           adjusted |-> 0, testR |-> Frac(0, 1), testK |-> Frac(0, 1),
           reported |-> FALSE, saved |-> {}, shown |-> {}, finished |-> {},
           ckptW |-> {}, train |-> NoTrain]

Init ==
  /\ \E wc \in WeightConfigs, T \in Targets, n \in EpochCounts, i \in Intervals,
        b \in Batches :
       args = [weight_kl |-> wc[1], max_weight |-> wc[2], target_loss |-> T,
               epochs |-> n, snapshot |-> i, batch |-> b]
  /\ data \in [train : 1 .. MaxTrain, test : 1 .. MaxTest]
  /\ weight_kl = args.weight_kl
  /\ epoch = 0
  /\ step = 0
  /\ pc = "loop"
  /\ consumed = 0
  /\ tested = 0
  /\ loss_r = Frac(0, 1)
  /\ loss_kl = Frac(0, 1)
  /\ logger = <<>>
  /\ snapshots = {}
  /\ run = 1
  /\ resume = -1
  /\ hist = NoHist
  /\ refLog = <<>>
  /\ adj = NoAdj

(* variant of line 80-81: the step is not set from the epoch, it carries over *)
EpochStartKeepStep ==
  /\ pc = "loop"
  /\ epoch < args.epochs
  /\ pc' = "train"
  /\ consumed' = 0
  /\ hist' = [hist EXCEPT !.start = step, !.prevEnd = hist.end, !.w = weight_kl,
                          !.prevW = hist.w, !.n = hist.n + 1,
                          !.adjusted = 0, !.reported = FALSE, !.train = NoTrain]
  /\ UNCHANGED <<args, data, weight_kl, epoch, step, tested, loss_r, loss_kl, logger,
                 snapshots, run, resume, refLog, adj>>

(* line 80-81: next value of the epoch loop, step initialisation *)
EpochStart ==
  /\ pc = "loop"
  /\ epoch < args.epochs
  /\ step' = epoch * data.train
  /\ pc' = "train"
  /\ consumed' = 0
  /\ hist' = [hist EXCEPT !.start = step', !.prevEnd = hist.end, !.w = weight_kl,
                          !.prevW = hist.w, !.n = hist.n + 1,
                          !.adjusted = 0, !.reported = FALSE, !.train = NoTrain]
  /\ UNCHANGED <<args, data, weight_kl, epoch, tested, loss_r, loss_kl, logger,
                 snapshots, run, resume, refLog, adj>>

(* line 80: the range is exhausted *)
LoopEnd ==
  /\ pc = "loop"
  /\ epoch >= args.epochs
  /\ pc' = "done"
  /\ UNCHANGED <<args, data, weight_kl, epoch, step, consumed, tested, loss_r,
                 loss_kl, logger, snapshots, run, resume, hist, refLog, adj>>

(* line 85-107: one training batch *)
TrainBatch ==
  /\ pc = "train"
  /\ consumed < data.train
  /\ LET n == BatchSize(data.train, consumed, args.batch)
     IN /\ logger' = Append(logger, Entry("train", TrainLogStep(step, n), weight_kl, epoch))
        /\ step' = StepAdvance(step, n)
        /\ consumed' = consumed + n
        /\ hist' = [hist EXCEPT !.train = [logged |-> TrainLogStep(step, n),
                                           before |-> step, after |-> step', size |-> n]]
  /\ UNCHANGED <<args, data, weight_kl, epoch, pc, tested, loss_r, loss_kl,
                 snapshots, run, resume, refLog, adj>>

(* line 110-112: the training loader is exhausted; the test accumulators are reset *)
BeginTest ==
  /\ pc = "train"
  /\ consumed = data.train
  /\ pc' = "test"
  /\ tested' = 0
  /\ loss_r' = Frac(0, 1)
  /\ loss_kl' = Frac(0, 1)
  /\ hist' = [hist EXCEPT !.batches = <<>>]
  /\ UNCHANGED <<args, data, weight_kl, epoch, step, consumed, logger,
                 snapshots, run, resume, refLog, adj>>

(* variant of line 113-121: the weight update (128-130) is inside the loop *)
TestBatchAdjusting ==
  /\ pc = "test"
  /\ tested < data.test
  /\ \E r \in Losses, k \in Losses :
       LET n == BatchSize(data.test, tested, args.batch)
       IN /\ loss_r' = Accumulate(loss_r, r, n, data.test)
          /\ loss_kl' = Accumulate(loss_kl, k, n, data.test)
          /\ tested' = tested + n
          /\ weight_kl' = AdjustKLWeight(loss_r', loss_kl', weight_kl, args.target_loss,
                                         args.max_weight)
          /\ hist' = [hist EXCEPT !.batches = Append(hist.batches, [n |-> n, r |-> r, k |-> k]),
                                  !.adjusted = hist.adjusted + 1]
  /\ UNCHANGED <<args, data, epoch, step, pc, consumed, logger,
                 snapshots, run, resume, refLog, adj>>

(* line 113-121: one test batch *)
TestBatch ==
  /\ pc = "test"
  /\ tested < data.test
  /\ \E r \in Losses, k \in Losses :
       LET n == BatchSize(data.test, tested, args.batch)
       IN /\ loss_r' = Accumulate(loss_r, r, n, data.test)
          /\ loss_kl' = Accumulate(loss_kl, k, n, data.test)
          /\ tested' = tested + n
          /\ hist' = [hist EXCEPT !.batches = Append(hist.batches, [n |-> n, r |-> r, k |-> k])]
  /\ UNCHANGED <<args, data, weight_kl, epoch, step, pc, consumed, logger,
                 snapshots, run, resume, refLog, adj>>

(* line 123-131: test scalars, then the KL-weight update *)
EndTest ==
  /\ pc = "test"
  /\ tested = data.test
  /\ logger' = Append(logger, Entry("test", step, 0, epoch))
  /\ weight_kl' = AdjustKLWeight(loss_r, loss_kl, weight_kl, args.target_loss,
                                 args.max_weight)
  /\ adj' = [Lr |-> loss_r, Lk |-> loss_kl, w |-> weight_kl, T |-> args.target_loss,
             Wmax |-> args.max_weight, out |-> weight_kl', n |-> adj.n + 1,
             tested |-> tested]
  /\ hist' = [hist EXCEPT !.testR = loss_r, !.testK = loss_kl, !.reported = TRUE,
                          !.adjusted = hist.adjusted + 1]
  /\ pc' = "snapshot"
  /\ UNCHANGED <<args, data, epoch, step, consumed, tested, loss_r, loss_kl,
                 snapshots, run, resume, refLog>>

(* line 133-135: save snapshot *)
SaveSnapshot ==
  /\ pc = "snapshot"
  /\ SnapshotDue(epoch, args.snapshot)
  /\ snapshots' = snapshots \cup {save_snapshot(epoch + 1)}
  /\ hist' = [hist EXCEPT !.saved = hist.saved \cup {epoch},
                          !.finished = hist.finished \cup {epoch},
                          !.ckptW = {c \in hist.ckptW : c[1] # epoch + 1}
                                      \cup {<<epoch + 1, weight_kl>>}]
  /\ pc' = "visualize"
  /\ UNCHANGED <<args, data, weight_kl, epoch, step, consumed, tested, loss_r, loss_kl,
                 logger, run, resume, refLog, adj>>

(* line 133: the condition is false; next value of the epoch loop *)
SkipSnapshot ==
  /\ pc = "snapshot"
  /\ ~SnapshotDue(epoch, args.snapshot)
  /\ hist' = [hist EXCEPT !.finished = hist.finished \cup {epoch}, !.end = step]
  /\ epoch' = epoch + 1
  /\ pc' = "loop"
  /\ UNCHANGED <<args, data, weight_kl, step, consumed, tested, loss_r, loss_kl,
                 logger, snapshots, run, resume, refLog, adj>>

(* line 137-158: image summaries of both splits; next value of the epoch loop *)
Visualize ==
  /\ pc = "visualize"
  /\ logger' = logger \o <<Entry("image-train", step, 0, epoch),
                           Entry("image-test", step, 0, epoch)>>
  /\ hist' = [hist EXCEPT !.shown = hist.shown \cup {epoch}, !.end = step]
  /\ epoch' = epoch + 1
  /\ pc' = "loop"
  /\ UNCHANGED <<args, data, weight_kl, step, consumed, tested, loss_r, loss_kl,
                 snapshots, run, resume, refLog, adj>>

(* variant of Resume: the weight the first process ended with is taken over *)
ResumeKeepingWeight ==
  /\ pc = "done"
  /\ run = 1
  /\ \E s \in snapshots :
       /\ epoch' = load_snapshot(s)
       /\ resume' = s.epoch
  /\ run' = 2
  /\ step' = 0
  /\ pc' = "loop"
  /\ consumed' = 0
  /\ tested' = 0
  /\ loss_r' = Frac(0, 1)
  /\ loss_kl' = Frac(0, 1)
  /\ refLog' = [i \in 1 .. Len(logger) |-> [logger[i] EXCEPT !.w = 0]]
  /\ logger' = <<>>
  /\ adj' = NoAdj
  /\ hist' = [NoHist EXCEPT !.ckptW = {c \in hist.ckptW : c[1] = resume'}]
  /\ UNCHANGED <<args, data, weight_kl, snapshots>>

(* line 43, 74-78: a new process of the same command line plus --resume <snapshot> *)
Resume ==
  /\ pc = "done"
  /\ run = 1
  /\ \E s \in snapshots :
       /\ epoch' = load_snapshot(s)
       /\ resume' = s.epoch
  /\ run' = 2
  /\ weight_kl' = args.weight_kl
  /\ step' = 0
  /\ pc' = "loop"
  /\ consumed' = 0
  /\ tested' = 0
  /\ loss_r' = Frac(0, 1)
  /\ loss_kl' = Frac(0, 1)
  /\ refLog' = [i \in 1 .. Len(logger) |-> [logger[i] EXCEPT !.w = 0]]
  /\ logger' = <<>>
  /\ adj' = NoAdj
  /\ hist' = [NoHist EXCEPT !.ckptW = {c \in hist.ckptW : c[1] = resume'}]
  /\ UNCHANGED <<args, data, snapshots>>

(* ---- the KL-weight update on its own, over a grid of inputs ---- *)
AdjLosses == {Frac(n, d) : n \in 0 .. MaxAdj, d \in {1, 2}}
AdjWeights == -1 .. MaxAdj + 1
AdjTargets == {None, Inf} \cup {Num(n) : n \in 0 .. MaxAdj}
AdjCeilings == {Inf} \cup {Num(n) : n \in -1 .. MaxAdj + 1}

InitAdjust ==
  /\ args = [weight_kl |-> 1, max_weight |-> Inf, target_loss |-> Num(1),
             epochs |-> 0, snapshot |-> 1, batch |-> 1]
  /\ data = [train |-> 1, test |-> 1]
  /\ weight_kl = args.weight_kl
  /\ epoch = 0
  /\ step = 0
  /\ pc = "adjust"
  /\ consumed = 0
  /\ tested = 0
  /\ loss_r = Frac(0, 1)
  /\ loss_kl = Frac(0, 1)
  /\ logger = <<>>
  /\ snapshots = {}
  /\ run = 1
  /\ resume = -1
  /\ hist = NoHist
  /\ refLog = <<>>
  /\ adj = NoAdj

(* line 127-131 applied to one input *)
ApplyAdjust ==
  /\ pc = "adjust"
  /\ \E Lr \in AdjLosses, Lk \in AdjLosses, w \in AdjWeights, T \in AdjTargets,
        Wmax \in AdjCeilings :
       /\ weight_kl' = AdjustKLWeight(Lr, Lk, w, T, Wmax)
       /\ adj' = [Lr |-> Lr, Lk |-> Lk, w |-> w, T |-> T, Wmax |-> Wmax,
                  out |-> weight_kl', n |-> 1, tested |-> 0]
  /\ pc' = "done"
  /\ UNCHANGED <<args, data, epoch, step, consumed, tested, loss_r, loss_kl,
                 logger, snapshots, run, resume, hist, refLog>>

NextAdjust == ApplyAdjust

SpecAdjust == InitAdjust /\ [][NextAdjust]_vars

Next ==
  \/ EpochStart
  \/ LoopEnd
  \/ TrainBatch
  \/ BeginTest
  \/ TestBatch
  \/ EndTest
  \/ SaveSnapshot
  \/ SkipSnapshot
  \/ Visualize
  \/ Resume

Spec == Init /\ [][Next]_vars

(* ======================= properties ======================= *)

\* f >= e, as the claim words it (false for +infinity)
FracGeExt(f, e) == e.kind = "num" /\ f.num >= e.v * f.den

\* f * w >= g
FracMulGe(f, w, g) == f.num * w * g.den >= g.num * f.den

\* x >= e
ExtGe(x, e) == e.kind = "num" /\ x >= e.v

(* C1: the KL-weight update leaves the weight unchanged when T is unset, or
   Lr >= T, or Lk*w >= Lr, or w >= Wmax, and otherwise sets it to
   min(2*w, Wmax). *)
AdjustContract ==
  adj.n > 0 =>
    IF \/ adj.T = None
       \/ FracGeExt(adj.Lr, adj.T)
       \/ FracMulGe(adj.Lk, adj.w, adj.Lr)
       \/ ExtGe(adj.w, adj.Wmax)
    THEN adj.out = adj.w
    ELSE /\ adj.T # None
         /\ adj.out = IF adj.Wmax.kind = "num" /\ adj.Wmax.v < 2 * adj.w
                      THEN adj.Wmax.v ELSE 2 * adj.w

\* a doubling that the ceiling cut short
AdjustClampedOnce ==
  /\ adj.n > 0
  /\ adj.Wmax.kind = "num"
  /\ adj.out = adj.Wmax.v
  /\ adj.out # adj.w
  /\ adj.out # 2 * adj.w

(* C2: in every state of a run the KL weight is non-negative and does not
   exceed the configured ceiling. *)
WeightWithinCeiling ==
  /\ weight_kl >= 0
  /\ args.max_weight.kind = "num" => weight_kl <= args.max_weight.v

\* a weight configured within [0, max_weight] stays there
WeightWithinCeilingWhenConfiguredSo ==
  (/\ args.weight_kl >= 0
   /\ args.max_weight.kind = "num" => args.weight_kl <= args.max_weight.v)
  => WeightWithinCeiling

(* C3: the weight used in an epoch is greater than or equal to the weight
   used in the epoch before it. *)
WeightNonDecreasing ==
  (pc \in {"train", "test", "snapshot", "visualize"} /\ hist.n >= 2)
    => hist.w >= hist.prevW

\* a non-negative configured weight never decreases
WeightNonDecreasingWhenNonNegative ==
  args.weight_kl >= 0 => WeightNonDecreasing

(* C4: the step at the end of an epoch is the step at its start plus the
   training samples consumed in it, and the next epoch starts at the step
   the previous one ended at. *)
StepBookkeeping ==
  /\ pc \in {"train", "test", "snapshot", "visualize"}
       => step = hist.start + consumed
  /\ pc \in {"test", "snapshot", "visualize"}
       => consumed = data.train
  /\ (pc = "train" /\ hist.n >= 2) => hist.start = hist.prevEnd

StepBookkeepingWitness ==
  /\ pc = "test"
  /\ hist.n >= 2
  /\ args.batch = 2
  /\ data.train = 2

(* C5: a process resumed from a snapshot logs at the same steps as the
   uninterrupted process did from the snapshot's epoch onward. *)
Trajectory(log) == [i \in 1 .. Len(log) |-> <<log[i].tag, log[i].step>>]

FromEpoch(log, e) ==
  LET Later(x) == x.epoch >= e IN SelectSeq(log, Later)

ResumeSameTrajectory ==
  run = 2 =>
    LET ref == Trajectory(FromEpoch(refLog, resume))
        got == Trajectory(logger)
    IN /\ Len(got) <= Len(ref)
       /\ got = SubSeq(ref, 1, Len(got))
       /\ pc = "done" => got = ref

ResumeSameTrajectoryWitness ==
  /\ run = 2
  /\ pc = "done"
  /\ resume >= 1
  /\ \E i \in 1 .. Len(logger) : logger[i].tag = "image-test"
  /\ \E i \in 1 .. Len(logger) : logger[i].tag = "train"

(* C6: a snapshot is written at the end of epoch e exactly when the interval
   is not 0 and e+1 is a multiple of it, and it records e+1; visualization
   happens in the same epochs, after the snapshot; interval 0 gives
   neither. *)
ImageEpochs(log) ==
  {log[i].epoch : i \in {j \in 1 .. Len(log) : log[j].tag \in {"image-train", "image-test"}}}

SnapshotCadence ==
  /\ \A e \in hist.finished :
       e \in hist.saved <=>
         /\ args.snapshot # 0
         /\ \E k \in (0 - MaxEpochs - 1) .. (MaxEpochs + 1) : e + 1 = k * args.snapshot
  /\ \A e \in hist.saved : save_snapshot(e + 1) \in snapshots
  /\ hist.shown \subseteq hist.saved
  /\ hist.saved \ hist.shown \subseteq (IF pc = "visualize" THEN {epoch} ELSE {})
  /\ ImageEpochs(logger) = hist.shown
  /\ args.snapshot = 0 => (snapshots = {} /\ ImageEpochs(logger) = {})

SnapshotCadenceWitness ==
  /\ pc = "done"
  /\ hist.saved # {}
  /\ hist.finished \ hist.saved # {}
  /\ hist.shown = hist.saved

(* C7: the reported test losses are the sample-count-weighted averages over
   the test batches of the epoch, the accumulators starting from 0. *)
RECURSIVE SumBatches(_, _)
SumBatches(bs, f) ==
  IF bs = <<>> THEN 0
  ELSE (IF f = "n" THEN Head(bs).n
        ELSE IF f = "r" THEN Head(bs).n * Head(bs).r
        ELSE Head(bs).n * Head(bs).k) + SumBatches(Tail(bs), f)

TestLossWeightedAverage ==
  hist.reported =>
    /\ SumBatches(hist.batches, "n") = data.test
    /\ hist.testR.num * data.test = SumBatches(hist.batches, "r") * hist.testR.den
    /\ hist.testK.num * data.test = SumBatches(hist.batches, "k") * hist.testK.den

TestLossWeightedAverageWitness ==
  /\ hist.reported
  /\ hist.n >= 2
  /\ Len(hist.batches) = 2
  /\ hist.batches[1].r # hist.batches[2].r
  /\ hist.testR.num > 0

(* C8: the three training scalars of a batch are logged at the step after
   advancing it by the batch size. *)
TrainLoggedAtNewStep ==
  hist.train.size > 0 => hist.train.logged = hist.train.after

(* C8, as the code has it: the three training scalars of a batch are logged
   at the step before advancing it by the batch size; the first batch of
   epoch e is logged at e * len(train). *)
TrainLoggedAtOldStep ==
  hist.train.size > 0 =>
    /\ hist.train.logged = hist.train.before
    /\ hist.train.after = hist.train.before + hist.train.size
    /\ logger[Len(logger)].tag = "train" => logger[Len(logger)].step = step - hist.train.size

TrainLoggedWitness ==
  /\ pc = "train"
  /\ hist.train.size = 2
  /\ epoch >= 1

(* C9: the KL-weight update runs once per epoch, after all test batches and
   before the snapshot and the visualization; the weight is constant over
   the training batches of an epoch, and a changed weight is first used in
   the next epoch. *)
AdjustOncePerEpoch ==
  /\ pc \in {"train", "test"} => (hist.adjusted = 0 /\ weight_kl = hist.w)
  /\ pc \in {"snapshot", "visualize"} => (hist.adjusted = 1 /\ adj.tested = data.test)
  /\ \A i, j \in 1 .. Len(logger) :
       (logger[i].tag = "train" /\ logger[j].tag = "train"
          /\ logger[i].epoch = logger[j].epoch) => logger[i].w = logger[j].w
  /\ (pc = "train" /\ adj.n > 0) => hist.w = adj.out
  /\ \A e \in hist.saved : e < epoch \/ hist.adjusted = 1

AdjustOncePerEpochWitness ==
  /\ pc = "train"
  /\ consumed > 0
  /\ adj.n > 0
  /\ adj.out # adj.w
  /\ logger[Len(logger)].w = adj.out

(* C10: the KL weight is not restored on resume: the resumed process starts
   its first epoch with the weight given on the command line. *)
ResumeStartsFromConfiguredWeight ==
  (run = 2 /\ epoch = resume /\ pc \in {"loop", "train", "test"}) =>
    /\ weight_kl = args.weight_kl
    /\ \A i \in 1 .. Len(logger) :
         logger[i].tag = "train" => logger[i].w = args.weight_kl

ResumeWeightDiffersWitness ==
  /\ run = 2
  /\ epoch = resume
  /\ pc = "train"
  /\ consumed > 0
  /\ \E c \in hist.ckptW : c[1] = resume /\ c[2] # weight_kl
  /\ Trajectory(logger) = SubSeq(Trajectory(FromEpoch(refLog, resume)), 1, Len(logger))

====
